---- MODULE Spec2Model ----
(***************************************************************************)
(* Streaming AES-CBC file service of AES_hardware/main.c: the command     *)
(* loop of main, the negotiation and chunk loop of                        *)
(* new_stream_file_processing, process_file_chunk_with_key, the PKCS#7    *)
(* codec and the calls made to the vendor AES primitive.                  *)
(***************************************************************************)
EXTENDS Integers, Sequences, FiniteSets, TLC

\* ------------------------------------------------------------------ bounds
\* The host sends at most MaxChunks complete chunks in one session.
MaxChunks == 2

\* Milliseconds that pass between two looks of the model at the tick counter
\* (the handler runs TickJump times).
TickJump == 500
\* Turns of the wait loop of _get_char taken in one step of the model.
SpinJump == 2500000
\* Most turns in a row of a polling loop that can find a byte waiting.
MaxBurst == 2

\* ------------------------------------------------------- program constants
CHUNK_SIZE == 1024
AES_BLOCK_SIZE == 16
MAX_FILE_SIZE == 1000000
B64_BUFFER_SIZE == 1500
\* _get_char: turns of its wait loop before it gives up
GETCHAR_SPIN == 5000000
\* read_exact_data: the silence window, in the unit of get_current_time
SILENCE_WINDOW == 500000
\* timeout_ms of the reads of the operation byte, of key, IV and size, and
\* of a chunk
OP_TIMEOUT_MS == 1000
FIELD_TIMEOUT_MS == 5000
CHUNK_TIMEOUT_MS == 10000
OP_ENCRYPT == "OP_ENCRYPT"
OP_DECRYPT == "OP_DECRYPT"
OP_NONE == "none"
AES_ENC == "AES_ENC"
AES_DEC == "AES_DEC"

Pow2(n) == 2 ^ n
U8(x) == x % 256

\* A uint32_t whose value may not fit TLC's 32-bit integers is kept as its
\* two 16-bit halves.
W32(hi, lo) == [hi |-> hi, lo |-> lo]
Val(w) == w.hi * 65536 + w.lo
GtW32(w, n) == w.hi > n \div 65536
                 \/ (w.hi = n \div 65536 /\ w.lo > n % 65536)

\* Codes of the characters the program compares with ('n', 'N', 'r', 'R' in
\* main; 'e', 'E', 'd', 'D' for the operation) and of one it does not know.
Ascii == [n |-> 110, N |-> 78, r |-> 114, R |-> 82,
          e |-> 101, E |-> 69, d |-> 100, D |-> 68, x |-> 120]
ChN == Ascii.n
ChNu == Ascii.N
ChR == Ascii.r
ChRu == Ascii.R
ChE == Ascii.e
ChEu == Ascii.E
ChD == Ascii.d
ChDu == Ascii.D
ChX == Ascii.x

default_key == [i \in 1..16 |-> i]
default_iv == [i \in 1..16 |-> i]

\* ------------------------------------------------------------ environment
\* Values a byte of memory outside the bytes written by the program can hold.
StrayBytes == {0, 255}
\* A key and an IV the host may send instead of relying on the defaults.
CustomKey == [i \in 1..16 |-> (17 * i) % 256]
CustomIv == [i \in 1..16 |-> 255 - i]

\* Files the host can send: a ramp 00 01 02 .. or a constant fill byte.
FileKinds == {[kind |-> "ramp", v |-> 0], [kind |-> "fill", v |-> 1],
              [kind |-> "fill", v |-> 16]}
SavedKind == [kind |-> "saved", v |-> 0]
NoFile == [kind |-> "none", v |-> 0]

\* Declared sizes the host tries: small ones, sizes around the chunk
\* boundaries, the largest accepted one and rejected ones.
ValidSizes == {1, 5, 15, 16, 17, 32, CHUNK_SIZE - 4, MAX_FILE_SIZE}
                \cup {k * CHUNK_SIZE : k \in 1..MaxChunks}
                \cup {k * CHUNK_SIZE + d : k \in 1..(MaxChunks - 1), d \in {1, 16}}
InvalidSizes == {0, MAX_FILE_SIZE + 1}

\* The 4 bytes the host puts on the wire for a size (most significant first).
SizeBytes(n) == <<(n \div Pow2(24)) % 256, (n \div Pow2(16)) % 256,
                  (n \div 256) % 256, n % 256>>
\* Rejected sizes with the top bit set: 0x80000010 and 0xFFFFFFFF.
HugeSizeBytes == {<<128, 0, 0, 16>>, <<255, 255, 255, 255>>}

\* ------------------------------------------------------------ bit helpers
RECURSIVE XorBits(_, _, _)
XorBits(a, b, n) ==
  IF n = 0 THEN 0
  ELSE (((a % 2) + (b % 2)) % 2) + 2 * XorBits(a \div 2, b \div 2, n - 1)
XorNib == [a \in 0..15 |-> [b \in 0..15 |-> XorBits(a, b, 4)]]
Xor8(a, b) == 16 * XorNib[a \div 16][b \div 16] + XorNib[(a % 16)][(b % 16)]

RECURSIVE OrBits(_, _, _)
OrBits(a, b, n) ==
  IF n = 0 THEN 0
  ELSE (IF (a % 2) = 1 \/ (b % 2) = 1 THEN 1 ELSE 0)
         + 2 * OrBits(a \div 2, b \div 2, n - 1)
Or16(a, b) == OrBits(a, b, 16)
Shl16(a, n) == (a * Pow2(n)) % 65536

\* ----------------------------------------------------------- output lines
Line(t, a, b, c) == [t |-> t, a |-> a, b |-> b, c |-> c]
L0(t) == Line(t, 0, 0, 0)
send_ack == L0("ACK")
send_error(message) == L0("ERROR:" \o message)

\* ------------------------------------------------- the block-cipher (CBC)
\* One 16-byte block under a 16-byte key: a keyed permutation of blocks.
BlockEnc(k, b) == [i \in 1..16 |-> (b[(i % 16) + 1] + k[i] + i) % 256]
BlockDec(k, c) ==
  [j \in 1..16 |-> LET i == ((j + 14) % 16) + 1
                   IN  (c[i] + 512 - k[i] - i) % 256]
XorBlock(x, y) == [i \in 1..16 |-> Xor8(x[i], y[i])]
BlockAt(data, n) == [i \in 1..16 |-> data[16 * (n - 1) + i]]

RECURSIVE CbcEncFrom(_, _, _, _, _, _)
CbcEncFrom(k, prev, data, n, nblocks, acc) ==
  IF n > nblocks THEN acc
  ELSE LET c == BlockEnc(k, XorBlock(BlockAt(data, n), prev))
       IN  CbcEncFrom(k, c, data, n + 1, nblocks, acc \o c)

RECURSIVE CbcDecFrom(_, _, _, _, _, _)
CbcDecFrom(k, prev, data, n, nblocks, acc) ==
  IF n > nblocks THEN acc
  ELSE LET c == BlockAt(data, n)
       IN  CbcDecFrom(k, c, data, n + 1, nblocks,
                      acc \o XorBlock(BlockDec(k, c), prev))

\* AES_Crypto in CBC mode over inWordLen 32-bit words: the complete blocks
\* are transformed, bytes of the output buffer the primitive does not write
\* keep what they held (stray).
AES_Crypto(En_De, k, ivec, data, inWordLen, outLen, stray) ==
  LET nblocks == (4 * inWordLen) \div AES_BLOCK_SIZE
      done == IF En_De = AES_ENC
              THEN CbcEncFrom(k, ivec, data, 1, nblocks, <<>>)
              ELSE CbcDecFrom(k, ivec, data, 1, nblocks, <<>>)
  IN  [i \in 1..outLen |-> IF i <= Len(done) THEN done[i] ELSE stray]

\* ------------------------------------------------------------ PKCS#7 codec
\* No padding added to a length that is already a multiple of the block.
pkcs7_padding_unalignedOnly(data, data_len, block_size) ==
  LET pad_value == U8((block_size - (data_len % block_size)) % block_size)
  IN  [i \in 1..(data_len + pad_value) |->
         IF i <= data_len THEN data[i] ELSE pad_value]

\* pkcs7_padding: the padded buffer; its length is the new *data_len.
pkcs7_padding(data, data_len, block_size) ==
  LET pad_value == U8(block_size - (data_len % block_size))
  IN  [i \in 1..(data_len + pad_value) |->
         IF i <= data_len THEN data[i] ELSE pad_value]

\* Only the last byte looked at, not the bytes in front of it.
pkcs7_unpadding_lastOnly(data, data_len) ==
  IF data_len = 0 THEN [rc |-> -1, len |-> data_len]
  ELSE LET pad_value == data[data_len]
       IN  IF pad_value = 0 \/ pad_value > data_len
           THEN [rc |-> -1, len |-> data_len]
           ELSE [rc |-> 0, len |-> data_len - pad_value]

\* pkcs7_unpadding: the return code and the new *data_len.
pkcs7_unpadding(data, data_len) ==
  IF data_len = 0 THEN [rc |-> -1, len |-> data_len]
  ELSE LET pad_value == data[data_len]
       IN  IF pad_value = 0 \/ pad_value > data_len
           THEN [rc |-> -1, len |-> data_len]
           ELSE IF \E i \in (data_len - pad_value + 1)..data_len :
                      data[i] # pad_value
                THEN [rc |-> -1, len |-> data_len]
                ELSE [rc |-> 0, len |-> data_len - pad_value]


\* ------------------------------------------------------------------ state
VARIABLES
  pc,            \* position of the program: main, op, key, iv, size, stream,
                 \* aes_init, aes_crypto, aes_close, done
  out,           \* lines printed since the command loop last printed READY
  op_byte,       \* uint8_t op_byte
  mode,          \* operation_mode_t mode
  key,           \* uint8_t key[16]
  iv,            \* uint8_t iv[16]
  size_buffer,   \* uint8_t size_buffer[4]
  file_size,     \* uint32_t file_size
  session,       \* session_state_t session
  total_received,
  chunk_count,
  input_buffer,  \* the bytes of input_buffer that hold the current chunk
  received_len,
  output_buffer, \* the bytes of output_buffer written for the current chunk
  output_len,
  padded_len,    \* padded_len of process_file_chunk_with_key (Encrypt)
  AES_Parm,      \* the parameter block handed to AES_Init / AES_Crypto
  fault,         \* which primitive call failed in the current chunk
  aesPending,    \* AES_Init calls not yet followed by AES_Close
  hostFile,      \* the file the host streams in this session
  sentData,      \* bytes of the chunk outputs sent in this session, in order
  chunks,        \* one record per chunk handed to the cipher step
  saved,         \* what the host kept of an Encrypt session to decrypt it next
  cdc,           \* bench of the codec functions: the buffer a function is
                 \* applied to and what it returned
  io_pc,         \* byte-level view of the program: the loop it is in (clear,
                 \* get_char, read), ret after read_exact_data left its loop
  io_stage,      \* which call of that loop: boot, op, key, iv, size, chunk, end
  RXDNE,         \* USART_FLAG_RXDNE: a received byte waits in the data register
  system_tick,   \* volatile uint32_t system_tick, counted from the entry of
                 \* the read in progress (the code uses only differences)
  rd,            \* locals of read_exact_data
  getchar_timeout, \* timeout of _get_char
  io_remaining,  \* bytes of the declared size not yet received
  io_ready,      \* parity of the number of READY lines printed
  io_burst,      \* turns in a row of a polling loop that found a byte
  io_polled      \* the read loop made a turn without a byte since the tick
                 \* counter last moved

vars == <<pc, out, op_byte, mode, key, iv, size_buffer, file_size, session,
          total_received, chunk_count, input_buffer, received_len,
          output_buffer, output_len, padded_len, AES_Parm, fault, aesPending,
          hostFile, sentData, chunks, saved, cdc, io_pc, io_stage, RXDNE,
          system_tick, rd, getchar_timeout, io_remaining, io_ready,
          io_burst, io_polled>>

ioVars == <<io_pc, io_stage, RXDNE, system_tick, rd, getchar_timeout,
            io_remaining, io_ready, io_burst, io_polled>>
\* The variables the message-level actions of the program leave alone.
auxVars == <<cdc, ioVars>>
NoCodec == [at |-> "idle"]
NoRead == [exact_len |-> 0, timeout |-> 0, bytes_read |-> 0,
           last_receive_time |-> 0, start_time |-> 0, taken |-> 0]
\* The byte-level view is not in use.
IoIdle ==
  /\ io_pc = "off"
  /\ io_stage = "off"
  /\ RXDNE = FALSE
  /\ system_tick = 0
  /\ rd = NoRead
  /\ getchar_timeout = 0
  /\ io_remaining = 0
  /\ io_ready = 0
  /\ io_burst = 0
  /\ io_polled = FALSE

NoSession == [iv |-> <<>>, total_processed |-> 0, total_file_size |-> 0,
              is_first_chunk |-> 0, is_last_chunk |-> 0]
NoParm == [iv |-> <<>>, key |-> <<>>, inWordLen |-> 0, En_De |-> "none"]
NoSaved == [has |-> FALSE, plain |-> NoFile, size |-> 0, key |-> <<>>,
            iv |-> <<>>, cipher |-> <<>>]

\* Byte i (counted from 1) of the file the host streams.
HostByte(f, i) ==
  IF f.kind = "ramp" THEN (i - 1) % 256
  ELSE IF f.kind = "fill" THEN f.v
  ELSE IF f.kind = "saved" THEN saved.cipher[i]
  ELSE 0
HostBytes(f, off, n) == [i \in 1..n |-> HostByte(f, off + i)]

\* read_exact_data: the buffer after bytes_read bytes of the wire were stored
\* in it; the bytes not reached keep what they held.
read_exact_data(wire, exact_len, bytes_read, held) ==
  [i \in 1..exact_len |-> IF i <= bytes_read THEN wire[i] ELSE held]

Banner == <<L0("Initializing..."), L0("MCU Startup Successful!"), L0("READY")>>

\* The state of the program when the command loop has printed READY for
\* the first time, seen from the position p.
MainAt(p) ==
  /\ pc = p
  /\ out = Banner
  /\ op_byte = 0
  /\ mode = OP_NONE
  /\ key = <<>>
  /\ iv = <<>>
  /\ size_buffer = <<>>
  /\ file_size = W32(0, 0)
  /\ session = NoSession
  /\ total_received = 0
  /\ chunk_count = 0
  /\ input_buffer = <<>>
  /\ received_len = 0
  /\ output_buffer = <<>>
  /\ output_len = 0
  /\ padded_len = 0
  /\ AES_Parm = NoParm
  /\ fault = "none"
  /\ aesPending = 0
  /\ hostFile = NoFile
  /\ sentData = <<>>
  /\ chunks = <<>>
  /\ saved = NoSaved

Init ==
  /\ MainAt("main")
  /\ cdc = NoCodec
  /\ IoIdle

sessionVars == <<op_byte, mode, key, iv, size_buffer, file_size, session,
                 total_received, chunk_count, input_buffer, received_len,
                 output_buffer, output_len, padded_len, AES_Parm, fault,
                 hostFile, sentData, chunks>>

\* --------------------------------------------------------------- main loop
\* main, lines 555-573: the mode character is read and dispatched.
MainChoice ==
  /\ pc = "main"
  /\ UNCHANGED auxVars
  /\ \E choice \in {ChN, ChNu, ChR, ChRu, ChX, -1} :
       IF choice \in {ChN, ChNu}
       THEN /\ out' = out \o <<Line("MODE", choice, 0, 0),
                               L0("Starting New Stream Processing..."),
                               L0("NEW_STREAM_MODE"), L0("WAIT_OPERATION")>>
            /\ pc' = "op"
       ELSE /\ out' = out \o <<Line("MODE", choice, 0, 0),
                               IF choice \in {ChR, ChRu}
                               THEN L0("Software reset...")
                               ELSE L0("Invalid choice")>>
            /\ pc' = "done"
  /\ UNCHANGED <<sessionVars, aesPending, saved>>

\* ------------------------------------------------------------- negotiation
\* What the host sends: anything of the small sets above, or, when it kept
\* the output of an Encrypt session, that session's key, IV and output.
HostOps == IF saved.has THEN {ChD} ELSE {ChE, ChEu, ChD, ChDu, ChX}
HostKeys == IF saved.has THEN {saved.key} ELSE {CustomKey}
HostIvs == IF saved.has THEN {saved.iv} ELSE {CustomIv}
HostSizes == IF saved.has THEN {SizeBytes(Len(saved.cipher))}
             ELSE {SizeBytes(n) : n \in ValidSizes \cup InvalidSizes}
                    \cup HugeSizeBytes
HostFiles == IF saved.has THEN {SavedKind} ELSE FileKinds

\* Every byte that is not e or E taken as a Decrypt request.
OperationOf_lenient(b) ==
  IF b = ChE \/ b = ChEu THEN OP_ENCRYPT ELSE OP_DECRYPT

\* lines 383-392
OperationOf(b) ==
  IF b = ChE \/ b = ChEu THEN OP_ENCRYPT
  ELSE IF b = ChD \/ b = ChDu THEN OP_DECRYPT
  ELSE OP_NONE

\* lines 376-399: operation byte
AwaitOperation ==
  /\ pc = "op"
  /\ UNCHANGED auxVars
  /\ \E n \in 0..1, b \in HostOps, held \in StrayBytes :
       LET got == read_exact_data(<<b>>, 1, n, held)[1]
       IN  /\ op_byte' = got
           /\ IF n # 1
              THEN /\ out' = out \o <<send_error("No operation received")>>
                   /\ pc' = "done"
                   /\ mode' = mode
              ELSE IF OperationOf(got) = OP_NONE
              THEN /\ out' = out \o <<send_error("Invalid operation")>>
                   /\ pc' = "done"
                   /\ mode' = mode
              ELSE /\ mode' = OperationOf(got)
                   /\ out' = out \o
                        <<IF OperationOf(got) = OP_ENCRYPT
                          THEN L0("OPERATION:ENCRYPT")
                          ELSE L0("OPERATION:DECRYPT"),
                          send_ack, L0("WAIT_KEY")>>
                   /\ pc' = "key"
  /\ UNCHANGED <<key, iv, size_buffer, file_size, session, total_received,
                 chunk_count, input_buffer, received_len, output_buffer,
                 output_len, padded_len, AES_Parm, fault, aesPending,
                 hostFile, sentData, chunks, saved>>

\* The default copied only over the bytes the read did not reach.
KeyAfterRead_partial(buf, n) ==
  IF n # 16 THEN [i \in 1..16 |-> IF i <= n THEN buf[i] ELSE default_key[i]]
  ELSE buf

\* lines 403-410: the key kept after the 16-byte read returned n bytes
KeyAfterRead(buf, n) == IF n # 16 THEN default_key ELSE buf

\* lines 401-417: key phase
AwaitKey ==
  /\ pc = "key"
  /\ UNCHANGED auxVars
  /\ \E n \in 0..16, k \in HostKeys, held \in StrayBytes :
       LET buf == read_exact_data(k, 16, n, held)
       IN  /\ key' = KeyAfterRead(buf, n)
           /\ out' = out \o <<IF n # 16 THEN L0("Using default key")
                                        ELSE L0("Custom key received"),
                              send_ack, L0("WAIT_IV")>>
  /\ pc' = "iv"
  /\ UNCHANGED <<op_byte, mode, iv, size_buffer, file_size, session, total_received,
                 chunk_count, input_buffer, received_len, output_buffer,
                 output_len, padded_len, AES_Parm, fault, aesPending,
                 hostFile, sentData, chunks, saved>>

\* lines 421-428: the IV kept after the 16-byte read returned n bytes
IvAfterRead(buf, n) == IF n # 16 THEN default_iv ELSE buf

\* lines 419-435: IV phase
AwaitIV ==
  /\ pc = "iv"
  /\ UNCHANGED auxVars
  /\ \E n \in 0..16, v \in HostIvs, held \in StrayBytes :
       LET buf == read_exact_data(v, 16, n, held)
       IN  /\ iv' = IvAfterRead(buf, n)
           /\ out' = out \o <<IF n # 16 THEN L0("Using default IV")
                                        ELSE L0("Custom IV received"),
                              send_ack, L0("WAIT_SIZE")>>
  /\ pc' = "size"
  /\ UNCHANGED <<op_byte, mode, key, size_buffer, file_size, session, total_received,
                 chunk_count, input_buffer, received_len, output_buffer,
                 output_len, padded_len, AES_Parm, fault, aesPending,
                 hostFile, sentData, chunks, saved>>

\* lines 447-448: the 4 size bytes as a 32-bit value
\* (the upper half holds bytes 0 and 1, the lower half bytes 2 and 3)
ParseSize(sb) ==
  W32(Or16(Shl16(sb[1], 24 - 16), Shl16(sb[2], 16 - 16)),
      Or16(Shl16(sb[3], 8), sb[4]))

\* The upper limit itself rejected.
SizeAccepted_strict(fs) ==
  ~(fs = W32(0, 0) \/ GtW32(fs, MAX_FILE_SIZE - 1))

\* line 452
SizeAccepted(fs) == ~(fs = W32(0, 0) \/ GtW32(fs, MAX_FILE_SIZE))

\* lines 437-470: declared size, then the session is set up
AwaitSize ==
  /\ pc = "size"
  /\ UNCHANGED auxVars
  /\ \E n \in 0..4, sz \in HostSizes, held \in StrayBytes, f \in HostFiles :
       LET sb == read_exact_data(sz, 4, n, held)
           fs == ParseSize(sb)
       IN  /\ size_buffer' = sb
           /\ IF n # 4
              THEN /\ out' = out \o <<send_error("File size receive failed")>>
                   /\ pc' = "done"
                   /\ UNCHANGED <<file_size, session, hostFile>>
              ELSE IF ~SizeAccepted(fs)
              THEN /\ out' = out \o <<Line("FILE_SIZE", fs.hi, fs.lo, 0),
                                      send_error("Invalid file size")>>
                   /\ file_size' = fs
                   /\ pc' = "done"
                   /\ UNCHANGED <<session, hostFile>>
              ELSE /\ out' = out \o <<Line("FILE_SIZE", fs.hi, fs.lo, 0), send_ack,
                                      L0("READY_FOR_DATA")>>
                   /\ file_size' = fs
                   /\ session' = [iv |-> iv, total_processed |-> 0,
                                  total_file_size |-> Val(fs),
                                  is_first_chunk |-> 0, is_last_chunk |-> 0]
                   /\ hostFile' = f
                   /\ pc' = "stream"
  /\ UNCHANGED <<op_byte, mode, key, iv, total_received, chunk_count, input_buffer,
                 received_len, output_buffer, output_len, padded_len,
                 AES_Parm, fault, aesPending, sentData, chunks, saved>>


\* --------------------------------------------------------------- streaming
\* line 479
ChunkSizeOf(remaining) ==
  IF remaining > CHUNK_SIZE THEN CHUNK_SIZE ELSE remaining

\* The flag raised one chunk early.
LastChunkFlag_early(received, fs, flag) ==
  IF received + CHUNK_SIZE >= fs THEN 1 ELSE flag

\* lines 493-496
LastChunkFlag(received, fs, flag) == IF received >= fs THEN 1 ELSE flag

\* lines 260-262: the Encrypt branch pads this chunk
NeedsPadding(is_last_chunk, input_len) ==
  is_last_chunk # 0 /\ (input_len % 16) # 0

\* line 214
B64Len(len) == 4 * ((len + 2) \div 3)

\* The encode buffer taken to be 1024 bytes.
EncodeLines_tight(len) ==
  IF B64Len(len) >= 1024
  THEN <<L0("ERROR: Base64 buffer too small")>>
  ELSE <<Line("B64", B64Len(len), 0, 0)>>

\* send_encrypted_data_base64, lines 214-240: the line it prints
EncodeLines(len) ==
  IF B64Len(len) >= B64_BUFFER_SIZE
  THEN <<L0("ERROR: Base64 buffer too small")>>
  ELSE <<Line("B64", B64Len(len), 0, 0)>>

\* uint32_t product of two values below 65536 * 65536, as halves.
Mul32(a, b) ==
  LET lo == (a % 65536) * b
  IN  W32(((a \div 65536) * b + lo \div 65536) % 65536, lo % 65536)

\* The quotient rounded up.
Progress_roundUp(received, fs) ==
  (Val(Mul32(received, 100)) + fs - 1) \div fs

\* line 514
Progress(received, fs) == Val(Mul32(received, 100)) \div fs

\* The verdict taken from the received bytes not exceeding the declared size.
FinishLines_atMost(received, processed, count, fs) ==
  <<L0("STREAM_COMPLETE"), Line("SUMMARY", received, processed, count),
    IF received <= fs THEN L0("SUCCESS: All data processed")
    ELSE Line("WARNING: Incomplete", fs, received, 0)>>

\* lines 518-526
FinishLines(received, processed, count, fs) ==
  <<L0("STREAM_COMPLETE"), Line("SUMMARY", received, processed, count),
    IF received = fs THEN L0("SUCCESS: All data processed")
    ELSE Line("WARNING: Incomplete", fs, received, 0)>>

\* lines 504-509: the cipher step returned non-zero
FailLines(len) == <<Line("B64", 0, 0, 0), Line("CHUNK_PROCESSED", len, 0, 0)>>

\* Byte counts at which a chunk read can stop early.
ShortLens(c) == {0, c \div 2, c - 1} \ {c}

ChunkRec(in_len, out_len, cipher_len, last, padded, f) ==
  [in_len |-> in_len, out_len |-> out_len, cipher_len |-> cipher_len,
   last |-> last, padded |-> padded, fault |-> f]

\* lines 476-502 and 246-285: one turn of the chunk loop up to the call of
\* AES_Init
StreamChunk ==
  /\ pc = "stream"
  /\ UNCHANGED auxVars
  /\ total_received < Val(file_size)
  /\ chunk_count' = chunk_count + 1
  /\ LET remaining == Val(file_size) - total_received
         chunk_size == ChunkSizeOf(remaining)
         wait == Line("WAIT_CHUNK", chunk_size, 0, 0)
     IN
     \E n \in (IF chunk_count < MaxChunks THEN {chunk_size} ELSE {})
                \cup ShortLens(chunk_size) :
       LET data == HostBytes(hostFile, total_received, n)
       IN
       /\ received_len' = n
       /\ IF n # chunk_size
          THEN \* short read: break
               /\ input_buffer' = data
               /\ out' = out \o <<wait>> \o
                           FinishLines(total_received,
                                       session.total_processed,
                                       chunk_count + 1, Val(file_size))
               /\ pc' = "done"
               /\ UNCHANGED <<total_received, session, padded_len, AES_Parm,
                              chunks>>
          ELSE
            LET received == total_received + n
                last == LastChunkFlag(received, Val(file_size),
                                      session.is_last_chunk)
                got == <<wait, Line("CHUNK_RECEIVED", n, 0, 0)>>
            IN
            /\ total_received' = received
            /\ session' = [session EXCEPT !.is_last_chunk = last]
            /\ IF mode = OP_ENCRYPT
               THEN IF NeedsPadding(last, n)
                    THEN IF n <= CHUNK_SIZE
                         THEN LET padded == pkcs7_padding(data, n, 16)
                              IN  /\ input_buffer' = padded
                                  /\ padded_len' = Len(padded)
                                  /\ AES_Parm' =
                                       [iv |-> session.iv, key |-> key,
                                        inWordLen |-> Len(padded) \div 4,
                                        En_De |-> AES_ENC]
                                  /\ out' = out \o got
                                  /\ pc' = "aes_init"
                                  /\ UNCHANGED chunks
                         ELSE \* "Input too large": return -1
                              /\ input_buffer' = data
                              /\ out' = out \o got \o FailLines(n) \o
                                     FinishLines(received,
                                                 session.total_processed,
                                                 chunk_count + 1, Val(file_size))
                              /\ chunks' = Append(chunks,
                                     ChunkRec(n, 0, 0, last, FALSE, "large"))
                              /\ pc' = "done"
                              /\ UNCHANGED <<padded_len, AES_Parm>>
                    ELSE /\ input_buffer' = data
                         /\ padded_len' = n
                         /\ AES_Parm' = [iv |-> session.iv, key |-> key,
                                         inWordLen |-> n \div 4,
                                         En_De |-> AES_ENC]
                         /\ out' = out \o got
                         /\ pc' = "aes_init"
                         /\ UNCHANGED chunks
               ELSE /\ input_buffer' = data
                    /\ padded_len' = 0
                    /\ AES_Parm' = [iv |-> session.iv, key |-> key,
                                    inWordLen |-> n \div 4,
                                    En_De |-> AES_DEC]
                    /\ out' = out \o got
                    /\ pc' = "aes_init"
                    /\ UNCHANGED chunks
  /\ UNCHANGED <<op_byte, mode, key, iv, size_buffer, file_size, output_buffer,
                 output_len, fault, aesPending, hostFile, sentData, saved>>

\* lines 287 and 319: AES_Init, which can report failure
AesInit ==
  /\ pc = "aes_init"
  /\ UNCHANGED auxVars
  /\ aesPending' = aesPending + 1
  /\ \E ok \in BOOLEAN :
       /\ fault' = IF ok THEN "none" ELSE "init"
       /\ pc' = IF ok THEN "aes_crypto" ELSE "aes_close"
  /\ UNCHANGED <<out, op_byte, mode, key, iv, size_buffer, file_size, session,
                 total_received, chunk_count, input_buffer, received_len,
                 output_buffer, output_len, padded_len, AES_Parm, hostFile,
                 sentData, chunks, saved>>

\* The bytes the caller reads back from the output buffer.
CipherOutLen == IF mode = OP_ENCRYPT THEN padded_len ELSE received_len

\* lines 293 and 325: AES_Crypto, which can report failure
AesCrypto ==
  /\ pc = "aes_crypto"
  /\ UNCHANGED auxVars
  /\ \E ok \in BOOLEAN, stray \in StrayBytes :
       /\ fault' = IF ok THEN "none" ELSE "crypto"
       /\ output_buffer' =
            IF ok THEN AES_Crypto(AES_Parm.En_De, AES_Parm.key, AES_Parm.iv,
                                  input_buffer, AES_Parm.inWordLen,
                                  CipherOutLen, stray)
            ELSE output_buffer
  /\ pc' = "aes_close"
  /\ UNCHANGED <<out, op_byte, mode, key, iv, size_buffer, file_size, session,
                 total_received, chunk_count, input_buffer, received_len,
                 output_len, padded_len, AES_Parm, aesPending, hostFile,
                 sentData, chunks, saved>>


\* AES_Close left out of the path on which AES_Crypto fails.
ReleaseOnExit_leak(f, pending) ==
  IF f = "crypto" THEN pending ELSE pending - 1

\* lines 289, 295, 299, 321, 327, 331: AES_Close runs on every exit path
\* (f is the call that failed, or none)
ReleaseOnExit(f, pending) == pending - 1

\* The first block of the output taken instead of the last.
IvAfterEncrypt_first(output_data, plen) ==
  [i \in 1..16 |-> output_data[i]]

\* line 303: the IV kept after an Encrypt chunk
IvAfterEncrypt(output_data, plen) ==
  [i \in 1..16 |-> output_data[plen - 16 + i]]

\* The tail of the decrypted output taken instead of the received input.
IvAfterDecrypt_fromOutput(input_data, input_len, stray) ==
  [i \in 1..16 |-> LET j == input_len - 16 + i
                   IN  IF j >= 1 THEN output_buffer[j] ELSE stray]

\* line 354: the IV kept after a Decrypt chunk; bytes in front of the buffer
\* are not the chunk's (stray)
IvAfterDecrypt(input_data, input_len, stray) ==
  [i \in 1..16 |-> LET j == input_len - 16 + i
                   IN  IF j >= 1 THEN input_data[j] ELSE stray]

\* lines 335-351: output length of a Decrypt chunk
DecryptOutLen(output_data, olen, is_last_chunk) ==
  IF is_last_chunk # 0
  THEN LET last_byte == output_data[olen]
       IN  IF last_byte <= 16 /\ last_byte > 0
           THEN LET r == pkcs7_unpadding(output_data, olen)
                IN  IF r.rc # 0 THEN olen ELSE r.len
           ELSE olen
  ELSE olen

\* lines 289-360 and 504-526: AES_Close, the rest of
\* process_file_chunk_with_key, the report of the chunk and the loop test
AesClose ==
  /\ pc = "aes_close"
  /\ UNCHANGED auxVars
  /\ aesPending' = ReleaseOnExit(fault, aesPending)
  /\ IF fault # "none"
     THEN /\ out' = out \o FailLines(received_len) \o
                      FinishLines(total_received, session.total_processed,
                                  chunk_count, Val(file_size))
          /\ chunks' = Append(chunks,
                 ChunkRec(received_len, 0, 4 * AES_Parm.inWordLen,
                          session.is_last_chunk,
                          mode = OP_ENCRYPT /\ padded_len # received_len,
                          fault))
          /\ pc' = "done"
          /\ UNCHANGED <<session, output_len, sentData>>
     ELSE
       \E stray \in StrayBytes :
         LET olen == IF mode = OP_ENCRYPT THEN padded_len
                     ELSE DecryptOutLen(output_buffer, received_len,
                                        session.is_last_chunk)
             newiv == IF mode = OP_ENCRYPT
                      THEN IvAfterEncrypt(output_buffer, padded_len)
                      ELSE IvAfterDecrypt(input_buffer, received_len, stray)
             processed == session.total_processed + received_len
             sent == B64Len(olen) < B64_BUFFER_SIZE
         IN
         /\ output_len' = olen
         /\ session' = [session EXCEPT !.iv = newiv,
                                       !.total_processed = processed]
         /\ sentData' = IF sent THEN sentData \o SubSeq(output_buffer, 1, olen)
                        ELSE sentData
         /\ chunks' = Append(chunks,
                ChunkRec(received_len, olen, 4 * AES_Parm.inWordLen,
                         session.is_last_chunk, olen # received_len, "none"))
         /\ LET lines == EncodeLines(olen) \o
                         <<Line("CHUNK_PROCESSED", received_len, olen, 0),
                           Line("PROGRESS",
                                Progress(total_received, Val(file_size)), 0, 0)>>
            IN  IF total_received < Val(file_size)
                THEN /\ out' = out \o lines
                     /\ pc' = "stream"
                ELSE /\ out' = out \o lines \o
                               FinishLines(total_received, processed,
                                           chunk_count, Val(file_size))
                     /\ pc' = "done"
  /\ UNCHANGED <<op_byte, mode, key, iv, size_buffer, file_size, total_received,
                 chunk_count, input_buffer, received_len, output_buffer,
                 padded_len, AES_Parm, fault, hostFile, saved>>

\* The Encrypt session that just ended sent the whole file and every chunk
\* went through the cipher: the host can keep its output.
CanSave ==
  /\ ~saved.has
  /\ mode = OP_ENCRYPT
  /\ SizeAccepted(file_size)
  /\ total_received = Val(file_size)
  /\ Len(chunks) = chunk_count
  /\ \A c \in 1..Len(chunks) : chunks[c].fault = "none"

\* main, lines 575-552: the locals of the ended session are gone, the loop
\* re-arms and prints READY.
MainLoop ==
  /\ pc = "done"
  /\ UNCHANGED auxVars
  /\ pc' = "main"
  /\ out' = Banner
  /\ op_byte' = 0
  /\ mode' = OP_NONE
  /\ key' = <<>>
  /\ iv' = <<>>
  /\ size_buffer' = <<>>
  /\ file_size' = W32(0, 0)
  /\ session' = NoSession
  /\ total_received' = 0
  /\ chunk_count' = 0
  /\ input_buffer' = <<>>
  /\ received_len' = 0
  /\ output_buffer' = <<>>
  /\ output_len' = 0
  /\ padded_len' = 0
  /\ AES_Parm' = NoParm
  /\ fault' = "none"
  /\ hostFile' = NoFile
  /\ sentData' = <<>>
  /\ chunks' = <<>>
  /\ \/ saved' = NoSaved
     \/ /\ CanSave
        /\ saved' = [has |-> TRUE, plain |-> hostFile, size |-> Val(file_size),
                     key |-> key, iv |-> iv, cipher |-> sentData]
  /\ UNCHANGED aesPending


Next ==
  \/ MainChoice
  \/ AwaitOperation
  \/ AwaitKey
  \/ AwaitIV
  \/ AwaitSize
  \/ StreamChunk
  \/ AesInit
  \/ AesCrypto
  \/ AesClose
  \/ MainLoop

Spec == Init /\ [][Next]_vars

TypeOK ==
  /\ pc \in {"main", "op", "key", "iv", "size", "stream", "aes_init",
             "aes_crypto", "aes_close", "done"}
  /\ aesPending \in Int
  /\ total_received <= MAX_FILE_SIZE
  /\ session.total_processed <= total_received


\* ------------------------------------------------------- base-64 encoder
\* line 211
base64_chars ==
  "ABCDEFGHIJKLMNOPQRSTUVWXYZabcdefghijklmnopqrstuvwxyz0123456789+/"
\* base64_chars[v] as a one-character string
B64Char(v) == SubSeq(base64_chars, v + 1, v + 1)
Or24(a, b) == OrBits(a, b, 24)
\* lines 226-229: the three bytes from C index i on, missing ones as 0
Triple(data, len, i) ==
  Or24(Or24(data[i + 1] * Pow2(16),
            IF i + 1 < len THEN data[i + 2] * Pow2(8) ELSE 0),
       IF i + 2 < len THEN data[i + 3] ELSE 0)

\* The third and fourth character taken from the bits even when the group
\* is short.
Base64Text_noPad(data, len) ==
  [j \in 1..B64Len(len) |->
     LET i == 3 * ((j - 1) \div 4)
         triple == Triple(data, len, i)
         k == (j - 1) % 4
     IN  IF k = 0 THEN B64Char((triple \div Pow2(18)) % 64)
         ELSE IF k = 1 THEN B64Char((triple \div Pow2(12)) % 64)
         ELSE IF k = 2 THEN B64Char((triple \div Pow2(6)) % 64)
         ELSE B64Char(triple % 64)]

\* lines 225-235: the characters written to b64_buffer, one string per
\* character; character j (from 1) belongs to the group whose first byte has
\* C index i
Base64Text(data, len) ==
  [j \in 1..B64Len(len) |->
     LET i == 3 * ((j - 1) \div 4)
         triple == Triple(data, len, i)
         k == (j - 1) % 4
     IN  IF k = 0 THEN B64Char((triple \div Pow2(18)) % 64)
         ELSE IF k = 1 THEN B64Char((triple \div Pow2(12)) % 64)
         ELSE IF k = 2
         THEN (IF i + 1 < len THEN B64Char((triple \div Pow2(6)) % 64)
               ELSE "=")
         ELSE (IF i + 2 < len THEN B64Char(triple % 64) ELSE "=")]

\* send_encrypted_data_base64, lines 214-240: the text after B64:, or the
\* refusal
send_encrypted_data_base64(data, len) ==
  IF EncodeLines(len)[1].t = "B64"
  THEN [ok |-> TRUE, text |-> Base64Text(data, len)]
  ELSE [ok |-> FALSE, text |-> <<>>]

\* ----------------------------------------------- the codec functions alone
\* Longest of the short buffers the codec functions are applied to.
MaxCodecLen == 33

\* Buffers handed to the codec functions: a ramp, a constant byte, a ramp
\* that ends in v bytes of value v, and the same with the first of these
\* bytes altered.
CodecKinds ==
  {[kind |-> "ramp", v |-> 0]}
    \cup {[kind |-> "fill", v |-> v] : v \in {0, 1, 3, 16, 17, 200, 255}}
    \cup {[kind |-> "padded", v |-> v] : v \in {1, 2, 16}}
    \cup {[kind |-> "broken", v |-> v] : v \in {2, 16}}
CodecLens == (0..MaxCodecLen) \cup {CHUNK_SIZE - 1, CHUNK_SIZE}
CodecByte(k, len, i) ==
  IF k.kind = "ramp" THEN (i - 1) % 256
  ELSE IF k.kind = "fill" THEN k.v
  ELSE IF i <= len - k.v THEN (i - 1) % 256
  ELSE IF k.kind = "broken" /\ i = len - k.v + 1 THEN k.v + 1
  ELSE k.v
CodecData(k, len) == [i \in 1..len |-> CodecByte(k, len, i)]

Bench(at, kind, len0, data, data_len, rc, text) ==
  [at |-> at, kind |-> kind, len0 |-> len0, data |-> data,
   data_len |-> data_len, rc |-> rc, text |-> text]

mainVars == <<pc, out, op_byte, mode, key, iv, size_buffer, file_size,
              session, total_received, chunk_count, input_buffer,
              received_len, output_buffer, output_len, padded_len, AES_Parm,
              fault, aesPending, hostFile, sentData, chunks, saved>>

\* The program is not running (pc is bench); a buffer is chosen.
InitCodec ==
  /\ MainAt("bench")
  /\ IoIdle
  /\ \E k \in CodecKinds, len \in CodecLens :
       cdc = Bench("in", k, len, CodecData(k, len), len, 0, <<>>)

\* pkcs7_padding(data, &len, AES_BLOCK_SIZE) as called at line 270
CodecPad ==
  /\ cdc.at = "in"
  /\ LET padded == pkcs7_padding(cdc.data, cdc.data_len, AES_BLOCK_SIZE)
     IN  cdc' = [cdc EXCEPT !.at = "padded", !.data = padded,
                            !.data_len = Len(padded)]
  /\ UNCHANGED <<mainVars, ioVars>>

\* pkcs7_unpadding(data, &len) as called at line 343, on the chosen buffer
\* or on the buffer pkcs7_padding gave
CodecUnpad ==
  /\ cdc.at \in {"in", "padded"}
  /\ LET r == pkcs7_unpadding(cdc.data, cdc.data_len)
     IN  cdc' = [cdc EXCEPT !.at = IF cdc.at = "in" THEN "unpadded"
                                   ELSE "restored",
                            !.data_len = r.len, !.rc = r.rc]
  /\ UNCHANGED <<mainVars, ioVars>>

\* lines 335-351 on the chosen buffer as the output of a final Decrypt chunk
CodecFinalChunk ==
  /\ cdc.at = "in"
  /\ cdc.data_len >= 1
  /\ cdc' = [cdc EXCEPT !.at = "final",
                        !.data_len = DecryptOutLen(cdc.data, cdc.data_len, 1)]
  /\ UNCHANGED <<mainVars, ioVars>>

\* send_encrypted_data_base64(data, len) as called at line 511
CodecEncode ==
  /\ cdc.at = "in"
  /\ LET r == send_encrypted_data_base64(cdc.data, cdc.data_len)
     IN  cdc' = [cdc EXCEPT !.at = "encoded", !.text = r.text,
                            !.rc = IF r.ok THEN 0 ELSE -1]
  /\ UNCHANGED <<mainVars, ioVars>>

NextCodec ==
  \/ CodecPad
  \/ CodecUnpad
  \/ CodecFinalChunk
  \/ CodecEncode

SpecCodec == InitCodec /\ [][NextCodec]_vars

\* The codec functions alone and the program, side by side.
InitCodecStream == Init \/ InitCodec
NextCodecStream ==
  \/ MainChoice
  \/ AwaitOperation
  \/ AwaitKey
  \/ AwaitIV
  \/ AwaitSize
  \/ StreamChunk
  \/ AesInit
  \/ AesCrypto
  \/ AesClose
  \/ MainLoop
  \/ CodecPad
  \/ CodecUnpad
  \/ CodecFinalChunk
  \/ CodecEncode
SpecCodecStream == InitCodecStream /\ [][NextCodecStream]_vars

\* ----------------------------------------- the program byte by byte
\* The same program seen at the level of its polling loops: every turn of
\* clear_receive_buffer, _get_char and read_exact_data is a step, the host
\* puts bytes into the receive register and the tick handler runs in
\* between. What the bytes hold is left open: every decision the program
\* takes on them can go either way.
\* The line runs at 115200 baud (line 532): a byte takes some 87 us, a turn
\* of a polling loop a few instructions. So the host cannot refill the
\* register turn after turn (at most MaxBurst turns in a row find a byte),
\* and between two steps of the tick counter, TickJump ms apart, the read
\* loop makes a turn that finds no byte.

\* Declared sizes accepted in this view.
IoSizes == {1, 3}

\* The tick counter is followed up to this count.
TickCap == CHUNK_TIMEOUT_MS + 2 * TickJump

\* A clock that stands still at the start of the read.
get_current_time_stuck == rd.start_time

\* lines 148-150
get_current_time == system_tick * 1000

\* lines 105-108: the locals when the loop of read_exact_data is entered
\* (the tick count restarts at 0); taken counts the bytes the call took
\* from the receive register
StartRead(exact_len, timeout_ms) ==
  [exact_len |-> exact_len, timeout |-> timeout_ms * 1000, bytes_read |-> 0,
   last_receive_time |-> 0, start_time |-> 0, taken |-> 0]

\* lines 377, 402, 420, 438: the read that follows the clearing of a stage
StageRead(stage) ==
  IF stage = "op" THEN StartRead(1, OP_TIMEOUT_MS)
  ELSE IF stage = "size" THEN StartRead(4, FIELD_TIMEOUT_MS)
  ELSE StartRead(16, FIELD_TIMEOUT_MS)

\* line 124
SilenceElapsed ==
  get_current_time - rd.last_receive_time > SILENCE_WINDOW

\* The budget never looked at.
BudgetElapsed_never == FALSE

\* line 129
BudgetElapsed == get_current_time - rd.start_time > rd.timeout

InitIO ==
  /\ MainAt("bench")
  /\ cdc = NoCodec
  /\ io_pc = "clear"
  /\ io_stage = "boot"
  /\ RXDNE \in BOOLEAN
  /\ system_tick = 0
  /\ rd = NoRead
  /\ getchar_timeout = 0
  /\ io_remaining = 0
  /\ io_ready = 0
  /\ io_burst = 0
  /\ io_polled = FALSE

\* The host puts a byte on the line.
HostSend ==
  /\ io_pc # "off"
  /\ ~RXDNE
  /\ io_burst < MaxBurst
  /\ RXDNE' = TRUE
  /\ UNCHANGED <<mainVars, cdc, io_pc, io_stage, system_tick, rd,
                 getchar_timeout, io_remaining, io_ready, io_burst,
                 io_polled>>

\* SysTick_Handler, lines 144-146, TickJump times
Tick ==
  /\ io_pc = "read"
  /\ io_polled
  /\ system_tick < TickCap
  /\ system_tick' = system_tick + TickJump
  /\ io_polled' = FALSE
  /\ UNCHANGED <<mainVars, cdc, io_pc, io_stage, RXDNE, rd, getchar_timeout,
                 io_remaining, io_ready, io_burst>>

\* clear_receive_buffer, lines 94-97: a waiting byte is thrown away
IoClearByte ==
  /\ io_pc = "clear"
  /\ RXDNE
  /\ RXDNE' = FALSE
  /\ io_burst' = io_burst + 1
  /\ UNCHANGED <<mainVars, cdc, io_pc, io_stage, system_tick, rd,
                 getchar_timeout, io_remaining, io_ready, io_polled>>

\* clear_receive_buffer, line 94: no byte waits, the loop ends and the
\* caller goes on: READY and _get_char after line 549, the next pass of the
\* command loop after line 578, the read of the stage inside a session
IoClearDone ==
  /\ io_pc = "clear"
  /\ ~RXDNE
  /\ io_burst' = 0
  /\ IF io_stage = "boot"
     THEN /\ io_pc' = "get_char"
          /\ getchar_timeout' = GETCHAR_SPIN
          /\ io_ready' = 1 - io_ready
          /\ UNCHANGED <<io_stage, system_tick, rd>>
     ELSE IF io_stage = "end"
     THEN /\ io_stage' = "boot"
          /\ UNCHANGED <<io_pc, getchar_timeout, io_ready, system_tick, rd>>
     ELSE /\ io_pc' = "read"
          /\ rd' = StageRead(io_stage)
          /\ system_tick' = 0
          /\ UNCHANGED <<io_stage, getchar_timeout, io_ready>>
  /\ UNCHANGED <<mainVars, cdc, RXDNE, io_remaining, io_polled>>

\* _get_char, lines 80-83: SpinJump turns without a byte
IoGetCharSpin ==
  /\ io_pc = "get_char"
  /\ ~RXDNE
  /\ io_burst' = 0
  /\ IF getchar_timeout <= SpinJump
     THEN \* timeout == 0: return -1, the default branch of main
          /\ getchar_timeout' = 0
          /\ io_pc' = "clear"
          /\ io_stage' = "end"
     ELSE /\ getchar_timeout' = getchar_timeout - SpinJump
          /\ UNCHANGED <<io_pc, io_stage>>
  /\ UNCHANGED <<mainVars, cdc, RXDNE, system_tick, rd, io_remaining,
                 io_ready, io_polled>>

\* _get_char, lines 84-85, and the switch of main, lines 556-573 (the
\* lines it prints take many byte times)
IoGetCharByte ==
  /\ io_pc = "get_char"
  /\ RXDNE
  /\ RXDNE' = FALSE
  /\ io_burst' = 0
  /\ io_pc' = "clear"
  /\ \E new_stream \in BOOLEAN :
       io_stage' = IF new_stream THEN "op" ELSE "end"
  /\ UNCHANGED <<mainVars, cdc, system_tick, rd, getchar_timeout,
                 io_remaining, io_ready, io_polled>>

\* read_exact_data, lines 113-116: a turn that finds a byte
IoReadByte ==
  /\ io_pc = "read"
  /\ RXDNE
  /\ RXDNE' = FALSE
  /\ io_burst' = io_burst + 1
  /\ rd' = [rd EXCEPT !.bytes_read = rd.bytes_read + 1,
                      !.last_receive_time = get_current_time,
                      !.taken = rd.taken + 1]
  /\ io_pc' = IF rd.bytes_read + 1 < rd.exact_len THEN "read" ELSE "ret"
  /\ UNCHANGED <<mainVars, cdc, io_stage, system_tick, getchar_timeout,
                 io_remaining, io_ready, io_polled>>

\* read_exact_data, lines 121-133: a turn that finds no byte
IoReadIdle ==
  /\ io_pc = "read"
  /\ ~RXDNE
  /\ io_burst' = 0
  /\ io_polled' = TRUE
  /\ io_pc' = IF SilenceElapsed \/ BudgetElapsed THEN "ret" ELSE "read"
  /\ UNCHANGED <<mainVars, cdc, io_stage, RXDNE, system_tick, rd,
                 getchar_timeout, io_remaining, io_ready>>

\* The chunk read that starts when n bytes are still to come (line 479-483).
ChunkRead(n) == StartRead(ChunkSizeOf(n), CHUNK_TIMEOUT_MS)

\* read_exact_data returned, lines 377-516: what the caller does with the
\* count (and the lines it prints, which take many byte times)
IoReturn ==
  /\ io_pc = "ret"
  /\ io_burst' = 0
  /\ io_polled' = FALSE
  /\ \E good \in BOOLEAN, fs \in IoSizes :
       LET complete == rd.bytes_read = rd.exact_len
           left == io_remaining - rd.exact_len
       IN
       IF io_stage = "op"
       THEN /\ io_pc' = "clear"
            /\ io_stage' = IF complete /\ good THEN "key" ELSE "end"
            /\ UNCHANGED <<rd, system_tick, io_remaining>>
       ELSE IF io_stage = "key"
       THEN /\ io_pc' = "clear"
            /\ io_stage' = "iv"
            /\ UNCHANGED <<rd, system_tick, io_remaining>>
       ELSE IF io_stage = "iv"
       THEN /\ io_pc' = "clear"
            /\ io_stage' = "size"
            /\ UNCHANGED <<rd, system_tick, io_remaining>>
       ELSE IF io_stage = "size"
       THEN IF complete /\ good
            THEN /\ io_pc' = "read"
                 /\ io_stage' = "chunk"
                 /\ io_remaining' = fs
                 /\ rd' = ChunkRead(fs)
                 /\ system_tick' = 0
            ELSE /\ io_pc' = "clear"
                 /\ io_stage' = "end"
                 /\ UNCHANGED <<rd, system_tick, io_remaining>>
       ELSE \* chunk
            IF complete /\ good /\ left > 0
            THEN /\ io_pc' = "read"
                 /\ io_stage' = "chunk"
                 /\ io_remaining' = left
                 /\ rd' = ChunkRead(left)
                 /\ system_tick' = 0
            ELSE /\ io_pc' = "clear"
                 /\ io_stage' = "end"
                 /\ io_remaining' = 0
                 /\ UNCHANGED <<rd, system_tick>>
  /\ UNCHANGED <<mainVars, cdc, RXDNE, getchar_timeout, io_ready>>

\* The steps of the program.
IoProgram ==
  \/ IoClearByte
  \/ IoClearDone
  \/ IoGetCharSpin
  \/ IoGetCharByte
  \/ IoReadByte
  \/ IoReadIdle
  \/ IoReturn

NextIO ==
  \/ HostSend
  \/ Tick
  \/ IoClearByte
  \/ IoClearDone
  \/ IoGetCharSpin
  \/ IoGetCharByte
  \/ IoReadByte
  \/ IoReadIdle
  \/ IoReturn

\* The processor keeps executing the program and the tick interrupt keeps
\* coming; nothing is assumed of what the host sends or when it stops.
SpecIO == InitIO /\ [][NextIO]_vars /\ WF_vars(IoProgram) /\ WF_vars(Tick)

\* ================================================================== claims
HasLine(t) == \E i \in 1..Len(out) : out[i].t = t
LinesOf(t) == {i \in 1..Len(out) : out[i].t = t}
InCipherCall == pc \in {"aes_init", "aes_crypto"}
\* Bytes of the chunk the cipher step is working on.
CipherBytes == IF mode = OP_ENCRYPT THEN padded_len ELSE received_len
Tail16(data) == [i \in 1..16 |-> data[Len(data) - 16 + i]]

\* C1: the vector handed to the primitive is the negotiated IV for the first
\* chunk and, for every later chunk, the last 16 bytes of the previous
\* chunk's ciphertext: of the output sent for it (Encrypt), of the input
\* received for it (Decrypt).
C1_ChainingVector ==
  InCipherCall =>
    AES_Parm.iv =
      IF chunk_count = 1 THEN iv
      ELSE IF mode = OP_ENCRYPT THEN Tail16(sentData)
      ELSE HostBytes(hostFile, total_received - received_len - 16, 16)

C1_Witness ==
  /\ pc = "aes_crypto"
  /\ chunk_count = 2
  /\ mode = OP_DECRYPT
  /\ hostFile = SavedKind
  /\ AES_Parm.iv # iv

RECURSIVE SumIn(_)
SumIn(c) == IF c = 0 THEN 0 ELSE chunks[c].in_len + SumIn(c - 1)

\* C2: padding is added or removed at most once in a session and only on the
\* chunk flagged last, which is the chunk whose receipt makes the received
\* bytes reach the declared size; a chunk that is not last has exactly
\* CHUNK_SIZE bytes (a multiple of 16) and the cipher step gives back as
\* many bytes as it was given.
C2_PaddingInvariant ==
  /\ CHUNK_SIZE % 16 = 0
  /\ Cardinality({c \in 1..Len(chunks) : chunks[c].padded}) <= 1
  /\ \A c \in 1..Len(chunks) :
       /\ chunks[c].padded => chunks[c].last # 0
       /\ chunks[c].last # 0 <=> SumIn(c) = Val(file_size)
       /\ chunks[c].last = 0 =>
            /\ chunks[c].in_len = CHUNK_SIZE
            /\ chunks[c].fault = "none" =>
                 chunks[c].out_len = chunks[c].in_len

C2_Witness ==
  /\ Len(chunks) = 2
  /\ chunks[1].last = 0
  /\ chunks[1].fault = "none"
  /\ ~chunks[1].padded
  /\ chunks[2].last # 0
  /\ chunks[2].padded

\* C3: every call of the primitive is over a positive multiple of 16 bytes
\* that covers the whole chunk.
C3_CipherLengthAligned ==
  InCipherCall =>
    /\ 4 * AES_Parm.inWordLen > 0
    /\ (4 * AES_Parm.inWordLen) % 16 = 0
    /\ 4 * AES_Parm.inWordLen = CipherBytes


\* The session sent every byte of the declared size and every chunk went
\* through the cipher.
Complete ==
  /\ pc = "done"
  /\ HasLine("READY_FOR_DATA")
  /\ total_received = Val(file_size)
  /\ Len(chunks) = chunk_count
  /\ \A c \in 1..Len(chunks) : chunks[c].fault = "none"

\* C4: a Decrypt session over the output of an Encrypt session, with the
\* same key and IV, sends back exactly the plaintext of the Encrypt session.
C4_RoundTrip ==
  (/\ Complete
   /\ mode = OP_DECRYPT
   /\ saved.has
   /\ hostFile = SavedKind
   /\ key = saved.key
   /\ iv = saved.iv)
  => sentData = HostBytes(saved.plain, 0, saved.size)

\* C5: on Encrypt the chunk flagged last always gets 1..16 bytes of padding:
\* its output length is input length + (16 - input length mod 16).
C5_FinalChunkAlwaysPadded ==
  \A c \in 1..Len(chunks) :
    (mode = OP_ENCRYPT /\ chunks[c].last # 0 /\ chunks[c].fault = "none")
      => chunks[c].out_len
           = chunks[c].in_len + (16 - (chunks[c].in_len % 16))

\* The Encrypt output of a file streamed with chunk capacity cap, from
\* offset off on, chaining from the vector v.
RECURSIVE EncryptStream(_, _, _, _, _, _)
EncryptStream(cap, k, v, f, size, off) ==
  IF off >= size THEN <<>>
  ELSE LET remaining == size - off
           n == IF remaining > cap THEN cap ELSE remaining
           last == IF off + n >= size THEN 1 ELSE 0
           data == HostBytes(f, off, n)
           inp == IF NeedsPadding(last, n) THEN pkcs7_padding(data, n, 16)
                  ELSE data
           outp == AES_Crypto(AES_ENC, k, v, inp, Len(inp) \div 4,
                              Len(inp), 0)
       IN  outp \o EncryptStream(cap, k, IvAfterEncrypt(outp, Len(inp)),
                                 f, size, off + n)

\* Chunk capacities the output is compared over; the last one takes the
\* whole file in a single chunk.
Capacities(size) == {16, 48, 512, 16 * ((size + 15) \div 16)}

\* C6: the concatenated Encrypt output of a session is the output for every
\* chunk capacity that is a multiple of 16, the single pass over the whole
\* file included.
C6_ChunkSplitEquivalence ==
  (Complete /\ mode = OP_ENCRYPT) =>
    \A cap \in Capacities(Val(file_size)) :
      sentData = EncryptStream(cap, key, iv, hostFile, Val(file_size), 0)

C6_Witness ==
  /\ Complete
  /\ mode = OP_ENCRYPT
  /\ chunk_count = 2
  /\ Val(file_size) = CHUNK_SIZE + 1
  /\ Len(sentData) = CHUNK_SIZE + 16

\* C7: an AES_Init is followed by exactly one AES_Close before the cipher
\* step returns, whichever call fails: outside the step no initialisation is
\* pending, inside it exactly one is.
C7_ReleaseDiscipline ==
  /\ aesPending \in {0, 1}
  /\ pc \in {"aes_crypto", "aes_close"} => aesPending = 1
  /\ pc \notin {"aes_crypto", "aes_close"} => aesPending = 0

C7_Witness ==
  /\ pc = "done"
  /\ Len(chunks) = 2
  /\ chunks[1].fault = "none"
  /\ chunks[2].fault = "crypto"
  /\ aesPending = 0


\* The 4 size bytes were read (the session got past the size phase).
SizeRead ==
  /\ pc \in {"stream", "aes_init", "aes_crypto", "aes_close", "done"}
  /\ HasLine("WAIT_SIZE")
  /\ ~HasLine("ERROR:File size receive failed")

\* The size bytes, most significant first, as a number.
BigEndian(sb) == ((sb[1] * 256 + sb[2]) * 256 + sb[3]) * 256 + sb[4]
SizeInRange(sb) ==
  /\ sb[1] = 0
  /\ BigEndian(sb) >= 1
  /\ BigEndian(sb) <= 1000000

\* C8: the session reaches streaming (ACK and READY_FOR_DATA) exactly when
\* the 4 size bytes, read big-endian, are a value in 1..1,000,000; any other
\* value gives ERROR:Invalid file size.
C8_SizeValidation ==
  SizeRead =>
    /\ HasLine("READY_FOR_DATA") <=> SizeInRange(size_buffer)
    /\ SizeInRange(size_buffer) =>
         /\ Val(file_size) = BigEndian(size_buffer)
         /\ Cardinality(LinesOf("ACK")) = 4
         /\ ~HasLine("ERROR:Invalid file size")
    /\ ~SizeInRange(size_buffer) =>
         /\ HasLine("ERROR:Invalid file size")
         /\ Cardinality(LinesOf("ACK")) = 3
         /\ pc = "done"

C8_Witness ==
  /\ SizeRead
  /\ size_buffer = <<0, 15, 66, 64>>
  /\ HasLine("READY_FOR_DATA")
  /\ pc = "stream"

NegotiationErrors ==
  {"ERROR:No operation received", "ERROR:Invalid operation",
   "ERROR:File size receive failed", "ERROR:Invalid file size"}
ErrorLines == {i \in 1..Len(out) : out[i].t \in NegotiationErrors}
Idx(t) == CHOOSE i \in LinesOf(t) : TRUE
IdxOf(ts) == CHOOSE i \in 1..Len(out) : out[i].t \in ts

\* C9: a negotiation error ends the session at once: the ERROR line is the
\* last line, there is no READY_FOR_DATA and no WAIT_CHUNK, the primitive is
\* not called and the program is back in the command loop; an operation
\* byte other than e, E, d, D gives such an error; READY_FOR_DATA comes only
\* after operation, key, IV and size were accepted, in that order.
C9_NegotiationAbort ==
  /\ (HasLine("WAIT_OPERATION") /\ pc # "op"
        /\ op_byte \notin {ChE, ChEu, ChD, ChDu})
       => (HasLine("ERROR:Invalid operation")
             \/ HasLine("ERROR:No operation received"))
  /\ (HasLine("WAIT_OPERATION") /\ pc # "op" /\ op_byte = ChX)
       => HasLine("ERROR:Invalid operation")
  /\ (pc = "done" /\ HasLine("WAIT_SIZE") /\ ~HasLine("FILE_SIZE"))
       => HasLine("ERROR:File size receive failed")
  /\ ErrorLines # {} =>
       /\ ErrorLines = {Len(out)}
       /\ pc = "done"
       /\ ~HasLine("READY_FOR_DATA")
       /\ ~HasLine("WAIT_CHUNK")
       /\ chunk_count = 0
       /\ chunks = <<>>
       /\ AES_Parm = NoParm
       /\ aesPending = 0
  /\ HasLine("READY_FOR_DATA") =>
       LET opI == IdxOf({"OPERATION:ENCRYPT", "OPERATION:DECRYPT"})
           keyI == IdxOf({"Using default key", "Custom key received"})
           ivI == IdxOf({"Using default IV", "Custom IV received"})
           szI == Idx("FILE_SIZE")
       IN  /\ op_byte \in {ChE, ChEu, ChD, ChDu}
           /\ SizeInRange(size_buffer)
           /\ \A t \in {"WAIT_OPERATION", "WAIT_KEY", "WAIT_IV", "WAIT_SIZE",
                        "FILE_SIZE"} : HasLine(t)
           /\ Idx("WAIT_OPERATION") < opI
           /\ out[opI + 1] = send_ack
           /\ Idx("WAIT_KEY") = opI + 2
           /\ keyI = opI + 3
           /\ out[keyI + 1] = send_ack
           /\ Idx("WAIT_IV") = keyI + 2
           /\ ivI = keyI + 3
           /\ out[ivI + 1] = send_ack
           /\ Idx("WAIT_SIZE") = ivI + 2
           /\ szI = ivI + 3
           /\ out[szI + 1] = send_ack
           /\ Idx("READY_FOR_DATA") = szI + 2

C9_Witness ==
  /\ pc = "done"
  /\ op_byte = ChX
  /\ out[Len(out)] = send_error("Invalid operation")

\* C10: a key or IV phase that got fewer than 16 bytes does not fail the
\* session: the whole default value is used, ACK follows and the next phase
\* starts, and a session that then gets a valid size and all its chunks
\* ends with SUCCESS.
C10_ShortReadTolerance ==
  /\ \A i \in LinesOf("Using default key") :
       /\ key = default_key
       /\ out[i + 1] = send_ack
       /\ out[i + 2] = L0("WAIT_IV")
       /\ InCipherCall => AES_Parm.key = default_key
  /\ \A i \in LinesOf("Using default IV") :
       /\ iv = default_iv
       /\ out[i + 1] = send_ack
       /\ out[i + 2] = L0("WAIT_SIZE")
       /\ (InCipherCall /\ chunk_count = 1) => AES_Parm.iv = default_iv
  /\ (/\ HasLine("Using default key") \/ HasLine("Using default IV")
      /\ pc = "done"
      /\ HasLine("READY_FOR_DATA")
      /\ total_received = Val(file_size))
       => out[Len(out)] = L0("SUCCESS: All data processed")

C10_Witness ==
  /\ pc = "done"
  /\ HasLine("Using default key")
  /\ HasLine("Using default IV")
  /\ chunk_count = 2
  /\ out[Len(out)] = L0("SUCCESS: All data processed")

LastIdx(t) == CHOOSE i \in LinesOf(t) : \A j \in LinesOf(t) : j <= i
RECURSIVE SumOut(_)
SumOut(c) == IF c = 0 THEN 0 ELSE chunks[c].out_len + SumOut(c - 1)

\* The session ended on a chunk read that returned fewer bytes than asked.
ShortChunkRead ==
  /\ pc = "done"
  /\ HasLine("WAIT_CHUNK")
  /\ received_len # out[LastIdx("WAIT_CHUNK")].a

\* C13: a chunk read that returns fewer bytes than requested ends the stream
\* as incomplete: the partial bytes are neither counted nor handed to the
\* cipher step, no other WAIT_CHUNK follows, the chunks reported before it
\* stand, and the session ends with STREAM_COMPLETE, the summary and the
\* WARNING verdict, never SUCCESS.
C13_ShortChunkEndsIncomplete ==
  ShortChunkRead =>
    LET w == LastIdx("WAIT_CHUNK")
    IN  /\ received_len < out[w].a
        /\ Len(chunks) = chunk_count - 1
        /\ total_received = SumIn(Len(chunks))
        /\ total_received < Val(file_size)
        /\ session.total_processed = total_received
        /\ Len(sentData) = SumOut(Len(chunks))
        /\ Cardinality(LinesOf("CHUNK_PROCESSED")) = Len(chunks)
        /\ Cardinality(LinesOf("CHUNK_RECEIVED")) = Len(chunks)
        /\ Len(out) = w + 3
        /\ out[w + 1] = L0("STREAM_COMPLETE")
        /\ out[w + 2] = Line("SUMMARY", total_received,
                             session.total_processed, chunk_count)
        /\ out[w + 3] = Line("WARNING: Incomplete", Val(file_size),
                             total_received, 0)
        /\ ~HasLine("SUCCESS: All data processed")
        /\ aesPending = 0

C13_Witness ==
  /\ ShortChunkRead
  /\ chunk_count = 2
  /\ Len(chunks) = 1
  /\ received_len > 0
  /\ out[Len(out)].t = "WARNING: Incomplete"

\* Lines of the form ERROR:<message>.
IsErrorText(t) == Len(t) >= 6 /\ SubSeq(t, 1, 6) = "ERROR:"
AllErrorLines == {i \in 1..Len(out) : IsErrorText(out[i].t)}

\* How a session that was started can end.
SessionEnded == pc = "done" /\ HasLine("NEW_STREAM_MODE")
NegotiationFailed == SessionEnded /\ ~HasLine("READY_FOR_DATA")
CipherFaulted ==
  SessionEnded /\ \E c \in 1..Len(chunks) : chunks[c].fault # "none"
SessionSucceeded ==
  /\ SessionEnded
  /\ HasLine("READY_FOR_DATA")
  /\ ~ShortChunkRead
  /\ ~CipherFaulted

\* C14: every session that fails, by a negotiation error, a short
\* chunk read or a cipher fault, prints exactly one ERROR:<message> line, and
\* a session that succeeds prints none.
C14_OneErrorLinePerFailure ==
  /\ (NegotiationFailed \/ ShortChunkRead \/ CipherFaulted)
       => Cardinality(AllErrorLines) = 1
  /\ SessionSucceeded => AllErrorLines = {}

\* The k-th PROGRESS line of the session.
ProgressIdx(k) ==
  CHOOSE i \in LinesOf("PROGRESS") :
    Cardinality({j \in LinesOf("PROGRESS") : j <= i}) = k
ProgressCount == Cardinality(LinesOf("PROGRESS"))

\* C18: every PROGRESS line carries floor(processed * 100 / declared size)
\* for the processed-bytes counter at the time it is printed; the product
\* stays below 2^32 for every accepted size; the value is in 0..100, never
\* decreases within a session and is 100 exactly on the final chunk.
C18_ProgressValue ==
  /\ (MAX_FILE_SIZE * 100) \div 65536 < 65536
  /\ total_received <= MAX_FILE_SIZE
  /\ ProgressCount <= Len(chunks)
  /\ HasLine("PROGRESS") =>
       out[LastIdx("PROGRESS")].a
         = (session.total_processed * 100) \div Val(file_size)
  /\ \A k \in 1..ProgressCount :
       LET v == out[ProgressIdx(k)].a
       IN  /\ v = (SumIn(k) * 100) \div Val(file_size)
           /\ v \in 0..100
           /\ chunks[k].fault = "none"
           /\ v = 100 <=> chunks[k].last # 0
           /\ k > 1 => out[ProgressIdx(k - 1)].a <= v

C18_Witness ==
  /\ pc = "done"
  /\ ProgressCount = 2
  /\ out[ProgressIdx(1)].a = 99
  /\ out[ProgressIdx(2)].a = 100
  /\ session.total_processed = CHUNK_SIZE + 1

\* Capacity of input_buffer and of output_buffer.
BufferCapacity == CHUNK_SIZE + 64

\* The lengths of a session stay inside the buffers and the encoder never
\* refuses a chunk.
WithinBuffers ==
  /\ \A i \in LinesOf("WAIT_CHUNK") : out[i].a \in 1..CHUNK_SIZE
  /\ received_len <= CHUNK_SIZE
  /\ Len(input_buffer) <= BufferCapacity
  /\ Len(output_buffer) <= BufferCapacity
  /\ pc \in {"aes_init", "aes_crypto", "aes_close"} =>
       /\ received_len \in 1..CHUNK_SIZE
       /\ CipherBytes <= BufferCapacity
       /\ 4 * AES_Parm.inWordLen <= BufferCapacity
  /\ \A c \in 1..Len(chunks) :
       /\ chunks[c].in_len \in 1..CHUNK_SIZE
       /\ chunks[c].cipher_len <= BufferCapacity
       /\ chunks[c].out_len <= BufferCapacity
       /\ B64Len(chunks[c].out_len) < B64_BUFFER_SIZE
  /\ ~HasLine("ERROR: Base64 buffer too small")
  /\ Cardinality(LinesOf("B64")) = Len(chunks)

\* C19: the requested chunk length is in 1..1024, the lengths given to and
\* produced by the cipher step stay within the 1024 + 64 bytes of the chunk
\* buffers, the base-64 length of every chunk output is below 1500, so the
\* encoder never refuses a chunk, and every chunk that went through the
\* cipher gets a B64 line that is not empty.
C19_BufferBounds ==
  /\ WithinBuffers
  /\ \A c \in 1..Len(chunks) :
       chunks[c].fault = "none" => chunks[c].out_len > 0

\* C19 (amended): the same bounds, and every chunk that went through the
\* cipher gets a B64 line, which is empty only for a final Decrypt chunk of
\* at most 16 bytes whose whole output was padding.
C19_BufferBoundsEmptyOnlyForPadding ==
  /\ WithinBuffers
  /\ \A c \in 1..Len(chunks) :
       (chunks[c].fault = "none" /\ chunks[c].out_len = 0) =>
         /\ mode = OP_DECRYPT
         /\ chunks[c].last # 0
         /\ chunks[c].in_len <= 16
         /\ c = Len(chunks)
         /\ pc = "done"
         /\ \A i \in 1..chunks[c].in_len : output_buffer[i] = chunks[c].in_len

C19_Witness ==
  /\ pc = "done"
  /\ mode = OP_DECRYPT
  /\ Len(chunks) = 1
  /\ chunks[1].fault = "none"
  /\ chunks[1].in_len = 16
  /\ chunks[1].out_len = 0
  /\ out[LastIdx("B64")] = Line("B64", 0, 0, 0)
  /\ out[Len(out)] = L0("SUCCESS: All data processed")

\* C20: in every streaming state processed <= received <= declared size, and
\* a session that reports SUCCESS has processed == received == declared
\* size: no chunk of it was reported with a zero-length result after a
\* failure of the cipher step.
C20_VerdictSoundness ==
  HasLine("READY_FOR_DATA") =>
    /\ session.total_processed <= total_received
    /\ total_received <= Val(file_size)
    /\ HasLine("SUCCESS: All data processed") =>
         /\ session.total_processed = total_received
         /\ total_received = Val(file_size)
         /\ \A c \in 1..Len(chunks) : chunks[c].fault = "none"

\* C15: padding a buffer of any length L to the block size 16 and then
\* unpadding it succeeds and gives back the length L and the first L bytes,
\* also when L is a multiple of 16; the padding is 1..16 bytes that all hold
\* their count and the padded length is a multiple of 16.
C15_PadUnpadRoundTrip ==
  /\ cdc.at = "padded" =>
       LET p == cdc.data_len - cdc.len0
       IN  /\ p \in 1..16
           /\ cdc.data_len % 16 = 0
           /\ \A i \in 1..cdc.len0 :
                cdc.data[i] = CodecByte(cdc.kind, cdc.len0, i)
           /\ \A i \in (cdc.len0 + 1)..cdc.data_len : cdc.data[i] = p
  /\ cdc.at = "restored" =>
       /\ cdc.rc = 0
       /\ cdc.data_len = cdc.len0
       /\ \A i \in 1..cdc.len0 :
            cdc.data[i] = CodecByte(cdc.kind, cdc.len0, i)

C15_Witness ==
  /\ cdc.at = "restored"
  /\ cdc.kind = [kind |-> "fill", v |-> 16]
  /\ cdc.len0 = 32
  /\ cdc.rc = 0
  /\ cdc.data_len = 32
  /\ Len(cdc.data) = 48

\* The last byte p of the buffer is 0, or more than its length, or one of
\* the last p bytes is not p (an empty buffer has no last byte).
PadInvalid(data, len) ==
  IF len = 0 THEN TRUE
  ELSE LET p == data[len]
       IN  p = 0 \/ p > len \/ \E i \in (len - p + 1)..len : data[i] # p

\* C16: pkcs7_unpadding fails exactly when the last byte p is 0, or p is
\* more than the buffer length, or some of the last p bytes differ from p,
\* and then leaves length and buffer as they were; when the output of the
\* final Decrypt chunk is such a buffer, the chunk is reported with output
\* length = input length and the session runs to its normal end.
C16_PaddingRejection ==
  /\ cdc.at = "unpadded" =>
       LET d == CodecData(cdc.kind, cdc.len0)
       IN  /\ cdc.rc # 0 <=> PadInvalid(d, cdc.len0)
           /\ cdc.data = d
           /\ cdc.rc # 0 => cdc.data_len = cdc.len0
           /\ cdc.rc = 0 => cdc.data_len = cdc.len0 - d[cdc.len0]
  /\ cdc.at = "final" =>
       (PadInvalid(CodecData(cdc.kind, cdc.len0), cdc.len0)
          => cdc.data_len = cdc.len0)
  /\ (/\ pc = "done"
      /\ mode = OP_DECRYPT
      /\ Len(chunks) >= 1
      /\ chunks[Len(chunks)].last # 0
      /\ chunks[Len(chunks)].fault = "none"
      /\ PadInvalid(output_buffer, received_len))
       => LET p == LastIdx("CHUNK_PROCESSED")
          IN  /\ chunks[Len(chunks)].out_len = received_len
              /\ output_len = received_len
              /\ out[p] = Line("CHUNK_PROCESSED", received_len,
                               received_len, 0)
              /\ out[p - 1] = Line("B64", B64Len(received_len), 0, 0)
              /\ out[p + 1] = Line("PROGRESS", 100, 0, 0)
              /\ out[p + 2] = L0("STREAM_COMPLETE")
              /\ out[Len(out)] = L0("SUCCESS: All data processed")
              /\ SubSeq(sentData, Len(sentData) - received_len + 1,
                        Len(sentData)) = output_buffer

C16_Witness ==
  /\ pc = "done"
  /\ mode = OP_DECRYPT
  /\ Len(chunks) = 1
  /\ chunks[1].last # 0
  /\ chunks[1].fault = "none"
  /\ received_len = 16
  /\ output_buffer[16] = 15
  /\ PadInvalid(output_buffer, 16)
  /\ chunks[1].out_len = 16
  /\ out[Len(out)] = L0("SUCCESS: All data processed")

\* The standard base-64 alphabet (RFC 4648): value v as a character.
StdChar(v) ==
  IF v < 26 THEN SubSeq("ABCDEFGHIJKLMNOPQRSTUVWXYZ", v + 1, v + 1)
  ELSE IF v < 52 THEN SubSeq("abcdefghijklmnopqrstuvwxyz", v - 25, v - 25)
  ELSE IF v < 62 THEN SubSeq("0123456789", v - 51, v - 51)
  ELSE IF v = 62 THEN "+"
  ELSE "/"
\* Byte m (0, 1, 2) of group g (from 0) of a buffer, 0 when it is missing.
GroupByte(d, n, g, m) == IF 3 * g + m < n THEN d[3 * g + m + 1] ELSE 0
\* The 6-bit field k (0..3, most significant first) of group g.
Sextet(d, n, g, k) ==
  LET num == (GroupByte(d, n, g, 0) * 256 + GroupByte(d, n, g, 1)) * 256
               + GroupByte(d, n, g, 2)
  IN  (num \div (64 ^ (3 - k))) % 64
CeilDiv3(n) == IF n % 3 = 0 THEN n \div 3 ELSE n \div 3 + 1

\* C17: the encoder's output is standard base-64: for n bytes it has
\* 4 * ceil(n / 3) characters, every whole 3-byte group gives the 4 alphabet
\* characters of its four 6-bit fields, a last group of 1 byte ends in ==
\* and one of 2 bytes in =; bytes 00 01 02 give AAEC and the byte FF gives
\* /w==.
C17_Base64Standard ==
  cdc.at = "encoded" =>
    LET n == cdc.len0
        d == CodecData(cdc.kind, n)
        t == cdc.text
    IN  /\ cdc.rc = 0
        /\ Len(t) = 4 * CeilDiv3(n)
        /\ \A g \in 0..(CeilDiv3(n) - 1) :
             LET held == IF n - 3 * g >= 3 THEN 3 ELSE n - 3 * g
             IN  /\ t[4 * g + 1] = StdChar(Sextet(d, n, g, 0))
                 /\ t[4 * g + 2] = StdChar(Sextet(d, n, g, 1))
                 /\ t[4 * g + 3] = IF held >= 2
                                   THEN StdChar(Sextet(d, n, g, 2)) ELSE "="
                 /\ t[4 * g + 4] = IF held = 3
                                   THEN StdChar(Sextet(d, n, g, 3)) ELSE "="
        /\ (cdc.kind.kind = "ramp" /\ n = 3) => t = <<"A", "A", "E", "C">>
        /\ (cdc.kind = [kind |-> "fill", v |-> 255] /\ n = 1)
             => t = <<"/", "w", "=", "=">>

C17_Witness ==
  /\ cdc.at = "encoded"
  /\ cdc.kind = [kind |-> "fill", v |-> 255]
  /\ cdc.len0 = 1
  /\ cdc.text = <<"/", "w", "=", "=">>

\* C11: read_exact_data never returns more than exact_len and returns
\* exact_len only after taking that many bytes from the receive register; it
\* returns early, with fewer bytes, once the silence window has passed
\* without a byte or the budget timeout_ms has passed since the call
\* started: the call is never in its loop more than one step of the tick
\* counter after either, also while bytes keep arriving.
C11_DualTimeout ==
  /\ io_pc \in {"read", "ret"} =>
       /\ rd.bytes_read <= rd.exact_len
       /\ rd.bytes_read = rd.taken
  /\ io_pc = "read" =>
       /\ rd.bytes_read < rd.exact_len
       /\ get_current_time - rd.start_time <= rd.timeout + TickJump * 1000
       /\ get_current_time - rd.last_receive_time
            <= SILENCE_WINDOW + TickJump * 1000
  /\ (io_pc = "ret" /\ rd.bytes_read < rd.exact_len) =>
       \/ get_current_time - rd.last_receive_time > SILENCE_WINDOW
       \/ get_current_time - rd.start_time > rd.timeout

\* The budget ended a read of 16 bytes while bytes kept arriving.
C11_Witness ==
  /\ io_pc = "ret"
  /\ rd.exact_len = 16
  /\ rd.bytes_read \in 1..15
  /\ get_current_time - rd.start_time > rd.timeout
  /\ get_current_time - rd.last_receive_time <= SILENCE_WINDOW

\* C12: whatever the host sends or withholds, as long as the program runs
\* and the tick advances, READY is printed again and again.
C12_AlwaysReadyAgain ==
  /\ []<>(io_ready = 0)
  /\ []<>(io_ready = 1)

\* READY is printed again after a chunk read that the silence window ended
\* short of its count.
C12_Witness ==
  /\ io_pc = "get_char"
  /\ io_stage = "boot"
  /\ rd.exact_len = 3
  /\ rd.bytes_read \in 1..2
  /\ get_current_time - rd.last_receive_time > SILENCE_WINDOW

====
